---------------------------- MODULE Spec2Model ----------------------------
(***************************************************************************)
(* Model of src/main.py: the UltrasonicAdafruit sensor component.          *)
(*                                                                         *)
(* State: the per-instance attributes written by reconfigure() and         *)
(* start(), the class-level attributes task and event, and the asyncio     *)
(* tasks created by start() and start_task().  Every handler is one        *)
(* action, since a synchronous Python handler (and a coroutine between two *)
(* awaits) runs without interleaving on the single event-loop thread.      *)
(* lastCall records what the most recent handler call handed back to its   *)
(* caller: a return value or the exception that escaped.                   *)
(***************************************************************************)
EXTENDS Integers, Sequences, FiniteSets, TLC

VARIABLES
    auto_start,          \* self.auto_start, per instance (class default True)
    board,               \* self.board: "unset", "None" or "Board"
    trigger_pin,         \* self.trigger_pin: "unset" or the configured string
    echo_interrupt_pin,  \* self.echo_interrupt_pin
    sonar,               \* self.sonar: NoSonar or the adapter record
    instTask,            \* self.task instance attribute: NoAttr or a task id
    clsTask,             \* UltrasonicAdafruit.task class attribute: None or a task id
    event,               \* UltrasonicAdafruit.event (class level): is_set()
    tasks,               \* asyncio tasks created so far, indexed by task id
    lastCall             \* outcome of the most recent handler call

vars == <<auto_start, board, trigger_pin, echo_interrupt_pin, sonar,
          instTask, clsTask, event, tasks, lastCall>>

compVars == <<auto_start, board, trigger_pin, echo_interrupt_pin, sonar,
              instTask, clsTask, event, tasks>>

-----------------------------------------------------------------------------
(* Bounds and inputs *)

\* cap on the number of asyncio tasks created in one behaviour
MaxTasks == 2

\* the sensor objects of the process
Instances == {"A", "B"}

\* the instance the sensor interface is exercised on: validate_config,
\* reconfigure and get_readings read and write attributes of self only
SensorInstances == {"A"}

\* Optional[asyncio.Task] = None
None == 0

\* the instance has no attribute of its own: the lookup falls to the class
NoAttr == -1

\* timeout_ms default of attrs.get("timeout_ms", 1000)
DefaultTimeoutMs == 1000

\* float(...) / 1000.0
MsPerSecond == 1000

\* self.sonar.distance / 100.0
CmPerMeter == 100

\* names the platform module exposes as pin handles (D0 .. D27)
PlatformPins ==
    {"D0", "D1", "D2", "D3", "D4", "D5", "D6", "D7", "D8", "D9", "D10", "D11",
     "D12", "D13", "D14", "D15", "D16", "D17", "D18", "D19", "D20", "D21",
     "D22", "D23", "D24", "D25", "D26", "D27"}

\* a timeout_ms attribute that is absent: timeout_ms is <<>> or <<ms>>
Omitted == <<>>

\* configurations handed to reconfigure(): trigger_pin, echo_interrupt_pin, timeout_ms
Configs ==
    { [trigger |-> "16",     echo |-> "18",  timeout_ms |-> <<500>>],
      [trigger |-> "D23",    echo |-> "D24", timeout_ms |-> Omitted],
      [trigger |-> "GPIO23", echo |-> "D24", timeout_ms |-> Omitted],
      [trigger |-> "23",     echo |-> "D24", timeout_ms |-> Omitted],
      [trigger |-> "D24",    echo |-> "D23", timeout_ms |-> <<500>>] }

\* the auto_start attribute of a configuration
AutoVals == {"omitted", "true", "false"}

\* what reading self.sonar.distance can do: a value in cm, the driver's
\* timeout RuntimeError, or another exception of the GPIO layer
ReadOutcomes ==
    { [kind |-> "value", cm |-> 150],
      [kind |-> "value", cm |-> 400],
      [kind |-> "RuntimeError", cm |-> 0],
      [kind |-> "OSError", cm |-> 0] }

\* attribute values seen by validate_config
BoardVals == { [kind |-> "absent", val |-> ""], [kind |-> "str", val |-> "board-1"],
               [kind |-> "num", val |-> ""] }
PinVals == { [kind |-> "absent", val |-> ""], [kind |-> "str", val |-> "D23"],
             [kind |-> "num", val |-> ""] }
AttrSets == { [board |-> b, trigger_pin |-> t, echo_interrupt_pin |-> e] :
                b \in BoardVals, t \in PinVals, e \in PinVals }

-----------------------------------------------------------------------------
(* Floats as exact fractions in lowest terms *)

RECURSIVE Gcd(_, _)
Gcd(a, b) == IF b = 0 THEN a ELSE Gcd(b, a % b)

Abs(n) == IF n < 0 THEN -n ELSE n

Frac(n, d) == LET g == Gcd(Abs(n), d) IN [num |-> n \div g, den |-> d \div g]

\* timeout_sec = float(attrs.get("timeout_ms", 1000)) / 1000.0
TimeoutSec(ms) ==
    Frac(IF ms = Omitted THEN DefaultTimeoutMs ELSE ms[1], MsPerSecond)

\* distance = self.sonar.distance / 100.0
Meters(cm) == Frac(cm, CmPerMeter)

\* {"distance": -1.0}
Sentinel == Frac(-1, 1)

NoValue == Frac(0, 1)

-----------------------------------------------------------------------------
(* Initial state: objects constructed, nothing configured, no task *)

NoSonar == [trigger |-> "unset", echo |-> "unset", timeout |-> NoValue]

NoAttrs == [board |-> [kind |-> "absent", val |-> ""],
            trigger_pin |-> [kind |-> "absent", val |-> ""],
            echo_interrupt_pin |-> [kind |-> "absent", val |-> ""]]

Call(op, inst, outcome) ==
    [op |-> op, inst |-> inst, outcome |-> outcome, auto |-> "", value |-> NoValue,
     deps |-> <<>>, field |-> "", attrs |-> NoAttrs]

Init ==
    /\ auto_start = [i \in Instances |-> TRUE]
    /\ board = [i \in Instances |-> "unset"]
    /\ trigger_pin = [i \in Instances |-> "unset"]
    /\ echo_interrupt_pin = [i \in Instances |-> "unset"]
    /\ sonar = [i \in Instances |-> NoSonar]
    /\ instTask = [i \in Instances |-> NoAttr]
    /\ clsTask = None
    /\ event = FALSE
    /\ tasks = <<>>
    /\ lastCall = Call("new", "cls", "ok")

-----------------------------------------------------------------------------
(* The background poller: start(), stop(), close(), start_task() and the   *)
(* two coroutines _background_loop() and _run_task()                        *)

NewTask(kind, owner) ==
    [kind |-> kind, owner |-> owner, state |-> "pending",
     must_cancel |-> FALSE, cancelled |-> FALSE]

TaskIds == 1 .. Len(tasks)

\* task.done()
Done(t) == tasks[t].state = "done"

\* self.task: the instance attribute if start() ever assigned one, else the
\* class attribute
SelfTask(i) == IF instTask[i] # NoAttr THEN instTask[i] ELSE clsTask

\* start() without its guard: a task is created on every call
NeedsNewTask_Always(i) == TRUE

\* start(): if self.task is None or self.task.done()
NeedsNewTask(i) == SelfTask(i) = None \/ Done(SelfTask(i))

\* the task cap leaves room for what start() would create
CanStart(i) == NeedsNewTask(i) => Len(tasks) < MaxTasks

\* start(): self.task = asyncio.create_task(self._background_loop())
StartedTasks(i) ==
    IF NeedsNewTask(i) THEN Append(tasks, NewTask("loop", i)) ELSE tasks

\* start(): self.event.clear()
StartedEvent(i) == IF NeedsNewTask(i) THEN FALSE ELSE event

StartedInstTask(i) ==
    IF NeedsNewTask(i) THEN [instTask EXCEPT ![i] = Len(tasks) + 1] ELSE instTask

\* stop(): if self.task is not None: self.task.cancel()
\* (cancel() of a finished task changes nothing)
StoppedTasks(i) ==
    LET t == SelfTask(i) IN
    IF t # None /\ ~Done(t) THEN [tasks EXCEPT ![t].must_cancel = TRUE] ELSE tasks

Start(i) ==
    /\ CanStart(i)
    /\ tasks' = StartedTasks(i)
    /\ event' = StartedEvent(i)
    /\ instTask' = StartedInstTask(i)
    /\ lastCall' = Call("start", i, "ok")
    /\ UNCHANGED <<auto_start, board, trigger_pin, echo_interrupt_pin, sonar,
                   clsTask>>

Stop(i) ==
    /\ event' = TRUE
    /\ tasks' = StoppedTasks(i)
    /\ lastCall' = Call("stop", i, "ok")
    /\ UNCHANGED <<auto_start, board, trigger_pin, echo_interrupt_pin, sonar,
                   instTask, clsTask>>

\* close() is self.stop()
Close(i) ==
    /\ event' = TRUE
    /\ tasks' = StoppedTasks(i)
    /\ lastCall' = Call("close", i, "ok")
    /\ UNCHANGED <<auto_start, board, trigger_pin, echo_interrupt_pin, sonar,
                   instTask, clsTask>>

\* classmethod start_task(): if cls.task is None or cls.task.done()
StartTask ==
    /\ IF clsTask = None \/ Done(clsTask)
          THEN /\ Len(tasks) < MaxTasks
               /\ tasks' = Append(tasks, NewTask("run", "cls"))
               /\ clsTask' = Len(tasks) + 1
          ELSE UNCHANGED <<tasks, clsTask>>
    /\ lastCall' = Call("start_task", "cls", "ok")
    /\ UNCHANGED <<auto_start, board, trigger_pin, echo_interrupt_pin, sonar,
                   instTask, event>>

\* One scheduling of _background_loop(): the task starts, or its sleep(1)
\* returns.  A pending cancel() is delivered as CancelledError, which the
\* coroutine does not catch; otherwise the loop condition is tested.
LoopStep(t) ==
    /\ t \in TaskIds
    /\ tasks[t].kind = "loop"
    /\ ~Done(t)
    /\ tasks' =
         IF tasks[t].must_cancel
           THEN [tasks EXCEPT ![t].state = "done", ![t].cancelled = TRUE]
           ELSE IF event
                  THEN [tasks EXCEPT ![t].state = "done"]
                  ELSE [tasks EXCEPT ![t].state = "sleeping"]
    /\ UNCHANGED <<auto_start, board, trigger_pin, echo_interrupt_pin, sonar,
                   instTask, clsTask, event, lastCall>>

\* One scheduling of _run_task().  Started: event.clear() and sleep.  Woken:
\* event.set(), then event.clear() of the next iteration before the next
\* await.  CancelledError is caught inside the coroutine, which then returns;
\* a task cancelled before it first ran never enters the try block.
RunStep(t) ==
    /\ t \in TaskIds
    /\ tasks[t].kind = "run"
    /\ ~Done(t)
    /\ IF tasks[t].must_cancel
          THEN /\ tasks' = [tasks EXCEPT ![t].state = "done",
                                         ![t].cancelled = (tasks[t].state = "pending")]
               /\ event' = event
          ELSE /\ tasks' = [tasks EXCEPT ![t].state = "sleeping"]
               /\ event' = FALSE
    /\ UNCHANGED <<auto_start, board, trigger_pin, echo_interrupt_pin, sonar,
                   instTask, clsTask, lastCall>>

-----------------------------------------------------------------------------
(* validate_config(), reconfigure(), get_readings()                         *)

\* attribute not in attrs or not isinstance(attrs[attribute], str)
BadField(v) == v.kind # "str"

\* validate_config() whose attribute loop covers echo_interrupt_pin only
ValidateConfigResult_SkipsTrigger(attrs) ==
    IF BadField(attrs.board)
      THEN [outcome |-> "ValueError", field |-> "board", deps |-> <<>>]
    ELSE IF BadField(attrs.echo_interrupt_pin)
      THEN [outcome |-> "ValueError", field |-> "echo_interrupt_pin", deps |-> <<>>]
    ELSE [outcome |-> "ok", field |-> "", deps |-> <<attrs.board.val>>]

\* validate_config(): the dependency loop over ["board"], then the attribute
\* loop over ["echo_interrupt_pin", "trigger_pin"]; the first bad field raises
ValidateConfigResult(attrs) ==
    IF BadField(attrs.board)
      THEN [outcome |-> "ValueError", field |-> "board", deps |-> <<>>]
    ELSE IF BadField(attrs.echo_interrupt_pin)
      THEN [outcome |-> "ValueError", field |-> "echo_interrupt_pin", deps |-> <<>>]
    ELSE IF BadField(attrs.trigger_pin)
      THEN [outcome |-> "ValueError", field |-> "trigger_pin", deps |-> <<>>]
    ELSE [outcome |-> "ok", field |-> "", deps |-> <<attrs.board.val>>]

ValidateConfig(attrs) ==
    /\ lastCall' = [Call("validate_config", "cls", ValidateConfigResult(attrs).outcome)
                      EXCEPT !.field = ValidateConfigResult(attrs).field,
                             !.deps = ValidateConfigResult(attrs).deps,
                             !.attrs = attrs]
    /\ UNCHANGED compVars

\* getattr(pyboard, name) finds an attribute of that exact name
HasPin(name) == name \in PlatformPins

\* adafruit_hcsr04.HCSR04(trigger_pin=..., echo_pin=..., timeout=timeout_sec)
Adapter(cfg) ==
    [trigger |-> cfg.trigger, echo |-> cfg.echo, timeout |-> TimeoutSec(cfg.timeout_ms)]

\* bool(attrs.get("auto_start", self.auto_start))
ParsedAutoStart(i, auto) == IF auto = "omitted" THEN auto_start[i] ELSE auto = "true"

\* reconfigure() with the pin lookups and the driver construction wrapped in a
\* try/except that logs and returns
ReconfigureOutcome_Swallows(cfg, hasBoard, driverOk) ==
    IF ~hasBoard THEN "ValueError" ELSE "ok"

\* how reconfigure() ends: the exception that escapes it, or "ok".  Nothing in
\* the method catches; the statements run in this order.
ReconfigureOutcome(cfg, hasBoard, driverOk) ==
    IF ~hasBoard THEN "ValueError"
    ELSE IF ~HasPin(cfg.trigger) \/ ~HasPin(cfg.echo) THEN "AttributeError"
    ELSE IF ~driverOk THEN "DriverError"
    ELSE "ok"

\* reconfigure() gets as far as "if self.auto_start: self.start()"
ReconfigureStarts(i, auto, hasBoard) == hasBoard /\ ParsedAutoStart(i, auto)

Reconfigure(i, cfg, auto, hasBoard, driverOk) ==
    /\ ReconfigureStarts(i, auto, hasBoard) => CanStart(i)
    /\ auto_start' = [auto_start EXCEPT ![i] = ParsedAutoStart(i, auto)]
    /\ board' = [board EXCEPT ![i] = IF hasBoard THEN "Board" ELSE "None"]
    /\ IF hasBoard
          THEN /\ trigger_pin' = [trigger_pin EXCEPT ![i] = cfg.trigger]
               /\ echo_interrupt_pin' = [echo_interrupt_pin EXCEPT ![i] = cfg.echo]
          ELSE UNCHANGED <<trigger_pin, echo_interrupt_pin>>
    /\ IF ReconfigureStarts(i, auto, hasBoard)
          THEN /\ tasks' = StartedTasks(i)
               /\ event' = StartedEvent(i)
               /\ instTask' = StartedInstTask(i)
          ELSE UNCHANGED <<tasks, event, instTask>>
    /\ sonar' = IF ReconfigureOutcome(cfg, hasBoard, driverOk) = "ok"
                  THEN [sonar EXCEPT ![i] = Adapter(cfg)]
                  ELSE sonar
    /\ lastCall' = [Call("reconfigure", i, ReconfigureOutcome(cfg, hasBoard, driverOk))
                      EXCEPT !.auto = auto]
    /\ UNCHANGED clsTask

\* get_readings(): the try block reads self.sonar.distance; only RuntimeError
\* is caught.  Without a sonar attribute the read raises AttributeError.
GetReadingsResult(i, read) ==
    IF sonar[i] = NoSonar
      THEN [outcome |-> "AttributeError", value |-> NoValue]
    ELSE IF read.kind = "value"
      THEN [outcome |-> "ok", value |-> Meters(read.cm)]
    ELSE IF read.kind = "RuntimeError"
      THEN [outcome |-> "ok", value |-> Sentinel]
    ELSE [outcome |-> read.kind, value |-> NoValue]

GetReadings(i, read) ==
    /\ lastCall' = [Call("get_readings", i, GetReadingsResult(i, read).outcome)
                      EXCEPT !.value = GetReadingsResult(i, read).value]
    /\ UNCHANGED compVars

-----------------------------------------------------------------------------

\* the configuration the lifecycle runs reconfigure with
LifecycleConfig == [trigger |-> "D23", echo |-> "D24", timeout_ms |-> Omitted]

\* The poller's lifecycle: every call that touches the tasks or the stop
\* event, reconfigure() included (it reaches start() whenever the board
\* dependency is present, whatever the pins are).
NextLifecycle ==
    \/ \E i \in Instances : Start(i)
    \/ \E i \in Instances : Stop(i)
    \/ \E i \in Instances : Close(i)
    \/ StartTask
    \/ \E t \in TaskIds : LoopStep(t)
    \/ \E t \in TaskIds : RunStep(t)
    \/ \E i \in Instances, auto \in AutoVals, hasBoard \in BOOLEAN :
            Reconfigure(i, LifecycleConfig, auto, hasBoard, TRUE)

SpecLifecycle == Init /\ [][NextLifecycle]_vars

\* The sensor interface: configuration intake and reads, with the poll loop
\* that reconfigure() starts.
NextSensor ==
    \/ \E attrs \in AttrSets : ValidateConfig(attrs)
    \/ \E i \in SensorInstances, cfg \in Configs, auto \in AutoVals,
          hasBoard \in BOOLEAN, driverOk \in BOOLEAN :
            Reconfigure(i, cfg, auto, hasBoard, driverOk)
    \/ \E i \in SensorInstances, read \in ReadOutcomes : GetReadings(i, read)
    \/ \E t \in TaskIds : LoopStep(t)

SpecSensor == Init /\ [][NextSensor]_vars

-----------------------------------------------------------------------------
(* Properties *)

Distances == { Meters(r.cm) : r \in { x \in ReadOutcomes : x.kind = "value" } }

\* the instance has a poll loop of its own that has not finished
HasActiveLoop(i) ==
    \E t \in TaskIds : tasks[t].kind = "loop" /\ tasks[t].owner = i /\ ~Done(t)

\* ... and no cancel() is pending on it
HasLiveLoop(i) ==
    \E t \in TaskIds : /\ tasks[t].kind = "loop" /\ tasks[t].owner = i
                        /\ ~Done(t) /\ ~tasks[t].must_cancel

\* self.task of the instance refers to a task that has not finished
HasRunningTask(i) == SelfTask(i) # None /\ ~Done(SelfTask(i))

\* the task ends the next time it is scheduled
WillExit(t) == tasks[t].must_cancel \/ (tasks[t].kind = "loop" /\ event)

\* C1 (as claimed): get_readings never propagates an error: with an adapter in
\* place, whatever the read of the adapter does, the call returns the sentinel
\* -1.0 or the reading divided by 100.
C1_NeverPropagates ==
    (lastCall.op = "get_readings" /\ sonar[lastCall.inst] # NoSonar)
        => /\ lastCall.outcome = "ok"
           /\ lastCall.value \in Distances \cup {Sentinel}

ClaimedHandle(pin) ==
    CASE pin = "16" -> "D23"
      [] pin = "18" -> "D24"
      [] pin = "D23" -> "D23"
      [] pin = "D24" -> "D24"
      [] pin = "GPIO23" -> "D23"
      [] pin = "23" -> "D23"

\* C3 (as claimed): with the board present and the driver constructible,
\* reconfigure builds the adapter on the handles of the ordered resolution:
\* "16"/"18" give D23/D24, and "D23", "GPIO23" and "23" all give D23.
C3_OrderedResolution ==
    (lastCall.op = "reconfigure" /\ board[lastCall.inst] = "Board"
        /\ lastCall.outcome # "DriverError")
        => /\ lastCall.outcome = "ok"
           /\ sonar[lastCall.inst].trigger = ClaimedHandle(trigger_pin[lastCall.inst])
           /\ sonar[lastCall.inst].echo = ClaimedHandle(echo_interrupt_pin[lastCall.inst])

\* C4 (as claimed): a get_readings that follows a failed reconfigure of the
\* same instance returns no distance read from an adapter.
C4_NoStaleAdapter ==
    [][(/\ lastCall.op = "reconfigure" /\ lastCall.outcome # "ok"
        /\ lastCall'.op = "get_readings" /\ lastCall'.inst = lastCall.inst)
          => ~(lastCall'.outcome = "ok" /\ lastCall'.value \in Distances)]_vars

\* C5: validate_config raises exactly when one of board, trigger_pin,
\* echo_interrupt_pin is absent or not a string; otherwise it returns the
\* one-element list holding the board name; and the call changes no state of
\* the component.
C5_ValidateConfig ==
    [][(lastCall'.op = "validate_config" /\ lastCall' # lastCall)
          => /\ UNCHANGED compVars
             /\ LET a == lastCall'.attrs
                     bad == \E f \in {"board", "trigger_pin", "echo_interrupt_pin"} :
                               a[f].kind # "str"
                 IN /\ lastCall'.outcome = (IF bad THEN "ValueError" ELSE "ok")
                    /\ lastCall'.deps = (IF bad THEN <<>> ELSE <<a.board.val>>)]_vars

\* validate_config was given a board and an echo pin that are strings and a
\* trigger pin of the wrong type, and raised
C5_Witness ==
    /\ lastCall.op = "validate_config"
    /\ lastCall.attrs.board.kind = "str"
    /\ lastCall.attrs.echo_interrupt_pin.kind = "str"
    /\ lastCall.attrs.trigger_pin.kind = "num"
    /\ lastCall.outcome = "ValueError"

\* C6: at most one poll loop created for an instance is unfinished at any
\* time.
C6_AtMostOneLoop ==
    \A i \in Instances :
        Cardinality({ t \in TaskIds : /\ tasks[t].kind = "loop"
                                      /\ tasks[t].owner = i
                                      /\ ~Done(t) }) <= 1

\* start() has just returned on an instance whose loop was already running
\* (it has been scheduled since it was created), and that loop is still the
\* only task ever created for the instance
C6_Witness ==
    \E i \in Instances :
        /\ lastCall.op = "start" /\ lastCall.inst = i
        /\ instTask[i] # NoAttr
        /\ tasks[instTask[i]].state = "sleeping"
        /\ Cardinality({ t \in TaskIds : tasks[t].owner = i }) = 1

\* C7 (as claimed): a stop() or close() on an instance that has no running
\* task changes nothing about any poller: every unfinished task goes on
\* exactly as it would have.
C7_StopIsNoOp ==
    [][\A i \in Instances :
          ((Stop(i) \/ Close(i)) /\ ~HasRunningTask(i))
            => \A t \in TaskIds : ~Done(t) => (WillExit(t)' <=> WillExit(t))]_vars

\* C8 (as claimed): a successful reconfigure whose configuration omits
\* auto_start or sets it true leaves the instance with a poll loop, whatever
\* the earlier reconfigurations set (no class-level task involved).
C8_AutoStartDefaultsTrue ==
    [][\A i \in Instances, auto \in {"omitted", "true"} :
          (Reconfigure(i, LifecycleConfig, auto, TRUE, TRUE) /\ clsTask = None)
            => HasActiveLoop(i)']_vars

\* C9 (as claimed): the poll loop of an instance ends only after a stop() or
\* close() of that same instance, which is the only call that cancels it.
C9_NoCrossInstanceExit ==
    \A t \in TaskIds :
        (tasks[t].kind = "loop" /\ Done(t)) => tasks[t].must_cancel

\* C10 (as claimed): a start() issued after stop(), before the cancelled task
\* has been scheduled again, leaves the instance with a poll loop that no
\* cancel is pending on.
C10_StartAfterStop ==
    [][\A i \in Instances :
          (/\ Start(i)
           /\ instTask[i] # NoAttr
           /\ ~Done(instTask[i])
           /\ tasks[instTask[i]].must_cancel)
            => HasLiveLoop(i)']_vars

=============================================================================
